---- MODULE Spec2Model ----
(***************************************************************************)
(* A model of atc2json: the ATC container parser (Parse), its checksum     *)
(* validator (verifyChecksum, calcChecksum), and the byte-stream reads     *)
(* they are built on.  Offsets are 0-based as in the Go source; sequences  *)
(* are 1-based, so byte k of a buffer is data[k + 1].                      *)
(***************************************************************************)
EXTENDS Integers, Sequences, FiniteSets, TLC

VARIABLES
    atcData,      \* Parse's argument: the input buffer (a sequence of bytes)
    spare,        \* the bytes between len(atcData) and cap(atcData)
    layout,       \* how the input buffer was put together (header, blocks)
    pc,           \* where Parse is: "start", "loop", "finish", "done"
    pos,          \* the reader's cursor: dataLen - reader.Len()
    blockStart,   \* offset of the block header read last
    blockHeader,  \* the BlockHeader read last
    leads,        \* the six sample slices, each absent (nil) or a sequence
    fmtBlock,     \* *FmtBlock: absent (nil) or the decoded record
    infoBlock,    \* *InfoBlock: absent (nil) or the decoded bytes
    result,       \* the *EcgData returned: absent (nil) or the Document
    err,          \* the error returned ("nil" while there is none)
    fault,        \* the run-time panic that ended Parse ("none" otherwise)
    blockLog,     \* every block header decoded so far, with its offset
    verifyLog,    \* every call of verifyChecksum so far
    headerReads,  \* number of block-header reads attempted so far
    csData,       \* TestCalcChecksum: the byte sequence summed
    csPerm,       \* a reordering of csData
    csSum,        \* calcChecksum(csData), once computed
    csPermSum,    \* calcChecksum(csPerm), once computed
    csPc          \* "ready" or "done"

parseVars == <<atcData, spare, layout, pc, pos, blockStart, blockHeader, leads,
               fmtBlock, infoBlock, result, err, fault, blockLog, verifyLog,
               headerReads>>
csVars == <<csData, csPerm, csSum, csPermSum, csPc>>
vars == <<atcData, spare, layout, pc, pos, blockStart, blockHeader, leads,
          fmtBlock, infoBlock, result, err, fault, blockLog, verifyLog,
          headerReads, csData, csPerm, csSum, csPermSum, csPc>>

-----------------------------------------------------------------------------
(* Program constants.                                                      *)

AtcFileSignature == <<65, 76, 73, 86, 69, 0, 0, 0>>   \* 'A','L','I','V','E',0,0,0
ChecksumLength == 4
FileHeaderSize == 12      \* binary size of AtcFileHeader
BlockHeaderSize == 8      \* binary size of BlockHeader
FmtBlockSize == 8         \* binary size of FmtBlock
InfoBlockSize == 264      \* binary size of InfoBlock
MaxInt32 == 2147483647

\* A uint32 is kept as its two 16-bit halves, [hi, lo]: its value is
\* 65536 * hi + lo.  (TLC's integers end at 2^31 - 1.)
U32(hi, lo) == [hi |-> hi, lo |-> lo]

\* Byte counts and offsets of FarOffset and more are all taken as FarOffset:
\* no buffer here is that long, and a read or a slice only compares them
\* with the length of the buffer.
FarOffset == 1073741824

\* int64(u), or int(u), of a uint32 u.
ToInt(u) ==
    IF u.hi >= FarOffset \div 65536 THEN FarOffset ELSE 65536 * u.hi + u.lo

\* u + k in uint32 arithmetic, for a small constant k.
AddU32(u, k) ==
    U32((u.hi + ((u.lo + k) \div 65536)) % 65536, (u.lo + k) % 65536)

\* uint32(x) of an int32 x.
Int32ToU32(x) ==
    U32(IF x < 0 THEN 65536 + (x \div 65536) ELSE x \div 65536, x % 65536)

TagFmt  == <<102, 109, 116, 32>>    \* "fmt "
TagInfo == <<105, 110, 102, 111>>   \* "info"
TagEcg  == <<101, 99, 103, 32>>     \* "ecg "
TagEcg2 == <<101, 99, 103, 50>>     \* "ecg2"
TagEcg3 == <<101, 99, 103, 51>>     \* "ecg3"
TagEcg4 == <<101, 99, 103, 52>>     \* "ecg4"
TagEcg5 == <<101, 99, 103, 53>>     \* "ecg5"
TagEcg6 == <<101, 99, 103, 54>>     \* "ecg6"

LeadNames == {"leadI", "leadII", "leadIII", "aVR", "aVL", "aVF"}
SampleTags == {TagEcg, TagEcg2, TagEcg3, TagEcg4, TagEcg5, TagEcg6}
KnownTags == {TagFmt, TagInfo} \cup SampleTags

\* The lead a sample tag is decoded into (the switch of Parse).
LeadOf(tag) ==
    CASE tag = TagEcg  -> "leadI"
      [] tag = TagEcg2 -> "leadII"
      [] tag = TagEcg3 -> "leadIII"
      [] tag = TagEcg4 -> "aVR"
      [] tag = TagEcg5 -> "aVL"
      [] tag = TagEcg6 -> "aVF"

\* A nil pointer or nil slice is the empty sequence; a present value x is <<x>>.
Nil == <<>>
Some(x) == <<x>>

-----------------------------------------------------------------------------
(* Little-endian decoding, as encoding/binary does it.                     *)

Zeros(n) == [i \in 1..n |-> 0]

Uint16LE(b, k) == b[k] + 256 * b[k + 1]

Uint32LE(b) == U32(b[3] + 256 * b[4], b[1] + 256 * b[2])

\* A faulty variant: the two bytes are taken as an unsigned value.
Int16LEUnsigned(b, k) == Uint16LE(b, k)

\* One int16, little-endian, two's complement.
Int16LE(b, k) ==
    LET u == Uint16LE(b, k) IN IF u >= 32768 THEN u - 65536 ELSE u

DecodeSamples(b) == [i \in 1..(Len(b) \div 2) |-> Int16LE(b, 2 * i - 1)]

DecodeFmt(b) ==
    [Format |-> b[1], Frequency |-> Uint16LE(b, 2), Resolution |-> Uint16LE(b, 4),
     Flags |-> b[6], Reserved |-> Uint16LE(b, 7)]

DecodeBlockHeader(b) ==
    [BlockId |-> SubSeq(b, 1, 4), Length |-> Uint32LE(SubSeq(b, 5, 8))]

\* binary.Read of n bytes from a bytes.Reader at offset p (io.ReadFull): all n
\* bytes or an error; a short read leaves the destination untouched and the
\* reader at the end of the data.
BinaryRead(data, p, n) ==
    LET avail == Len(data) - p IN
    IF n = 0 THEN [err |-> "nil", pos |-> p, bytes |-> <<>>]
    ELSE IF avail >= n
         THEN [err |-> "nil", pos |-> p + n, bytes |-> SubSeq(data, p + 1, p + n)]
         ELSE [err |-> IF avail = 0 THEN "EOF" ELSE "unexpected EOF",
               pos |-> Len(data), bytes |-> <<>>]

\* bytes.Reader.Read into a buffer of n bytes: io.EOF only when nothing is
\* left; otherwise it copies what there is, up to n, and reports no error.
ReaderRead(data, p, n) ==
    LET avail == Len(data) - p IN
    IF avail <= 0 THEN [err |-> "EOF", pos |-> p]
    ELSE [err |-> "nil", pos |-> p + (IF n < avail THEN n ELSE avail)]

-----------------------------------------------------------------------------
(* The checksum.                                                           *)

\* int32 addition: the result wraps into [-2^31, 2^31).
AddInt32(a, b) ==
    IF b > 0 /\ a > MaxInt32 - b THEN ((a - MaxInt32) - 1) + ((b - MaxInt32) - 1)
    ELSE IF b < 0 /\ a < (-MaxInt32 - 1) - b THEN ((a + MaxInt32) + 1) + ((b + MaxInt32) + 1)
    ELSE a + b

\* The running sum over data[lo..hi].  The loop adds the bytes one by one;
\* here the range is summed in halves, which int32 addition (associative)
\* makes the same value, and which keeps the evaluation shallow.
RECURSIVE SumRange(_, _, _)
SumRange(data, lo, hi) ==
    IF lo > hi THEN 0
    ELSE IF lo = hi THEN data[lo]
    ELSE AddInt32(SumRange(data, lo, (lo + hi) \div 2),
                  SumRange(data, ((lo + hi) \div 2) + 1, hi))

\* A faulty variant: each byte is taken as a signed 8-bit value.
calcChecksumSigned(data) ==
    Int32ToU32(SumRange([i \in 1..Len(data) |->
                            IF data[i] >= 128 THEN data[i] - 256 ELSE data[i]],
                        1, Len(data)))

\* A faulty variant: a position-weighted sum.
calcChecksumWeighted(data) ==
    Int32ToU32(SumRange([i \in 1..Len(data) |-> i * data[i]], 1, Len(data)))

\* var sum int32; sum += int32(b) for each byte b; return uint32(sum).
calcChecksum(data) == Int32ToU32(SumRange(data, 1, Len(data)))

\* A faulty variant: the comparison of the two checksums is left out.
verifyChecksumNoCompare(data, hidden, bStart, blockLen, p) ==
    LET rd      == BinaryRead(data, p, ChecksumLength)
        spanEnd == bStart + BlockHeaderSize + ToInt(blockLen)
        backing == data \o hidden
        inCap   == spanEnd <= Len(backing)
        entry   == [start |-> bStart, length |-> blockLen, cursor |-> p,
                    spanEnd |-> spanEnd, stored |-> U32(0, 0), sum |-> U32(0, 0),
                    inCap |-> inCap]
    IN  [pos |-> rd.pos, entry |-> entry,
         fault |-> IF inCap THEN "none" ELSE "slice bounds out of range",
         err |-> "nil"]

\* verifyChecksum(data, blockStart, blockLen, reader), the reader at offset p.
\* The error of the 4-byte read is dropped: a failed read leaves checksum 0.
\* The slice data[blockStart : blockStart+8+blockLen] panics when it ends
\* past cap(data); between len and cap it reads the hidden bytes.
verifyChecksum(data, hidden, bStart, blockLen, p) ==
    LET rd      == BinaryRead(data, p, ChecksumLength)
        stored  == IF rd.err = "nil" THEN Uint32LE(rd.bytes) ELSE U32(0, 0)
        spanEnd == bStart + BlockHeaderSize + ToInt(blockLen)
        backing == data \o hidden
        inCap   == spanEnd <= Len(backing)
        sum     == IF inCap THEN calcChecksum(SubSeq(backing, bStart + 1, spanEnd))
                   ELSE U32(0, 0)
        entry   == [start |-> bStart, length |-> blockLen, cursor |-> p,
                    spanEnd |-> spanEnd, stored |-> stored, sum |-> sum,
                    inCap |-> inCap]
    IN  [pos |-> rd.pos, entry |-> entry,
         fault |-> IF inCap THEN "none" ELSE "slice bounds out of range",
         err |-> IF inCap /\ stored # sum THEN "Checksum does not match" ELSE "nil"]

-----------------------------------------------------------------------------
(* Parse, one step at a time.  A step maps the record of Parse's locals to *)
(* the record after the step; the actions below apply it to the variables. *)

NoLeads == [l \in LeadNames |-> Nil]
NoHeader == [BlockId |-> <<0, 0, 0, 0>>, Length |-> U32(0, 0)]

Start == [pc |-> "start", pos |-> 0, blockStart |-> 0, blockHeader |-> NoHeader,
          leads |-> NoLeads, fmtBlock |-> Nil, infoBlock |-> Nil, result |-> Nil,
          err |-> "nil", fault |-> "none", blockLog |-> <<>>, verifyLog |-> <<>>,
          headerReads |-> 0]

\* return nil, err
Fail(s, msg) == [s EXCEPT !.pc = "done", !.err = msg]

\* A faulty variant: a short header read still decodes the bytes it got.
FileSignatureReadPartial(data) ==
    [i \in 1..8 |-> IF i <= Len(data) THEN data[i] ELSE 0]

\* header.FileSignature after binary.Read(reader, LittleEndian, &header), whose
\* error is dropped: a buffer shorter than the header leaves it all zero.
FileSignatureRead(data) ==
    LET rd == BinaryRead(data, 0, FileHeaderSize) IN
    IF rd.err = "nil" THEN SubSeq(rd.bytes, 1, 8) ELSE Zeros(8)

\* Lines 64-72: read the file header, compare the signature.
HeaderStep(data, s) ==
    LET rd == BinaryRead(data, 0, FileHeaderSize) IN
    IF FileSignatureRead(data) # AtcFileSignature
    THEN Fail([s EXCEPT !.pos = rd.pos], "Wrong file signature")
    ELSE [s EXCEPT !.pc = "loop", !.pos = rd.pos]

\* The checksum check that ends every known block's case.
AfterVerify(data, hidden, s, p) ==
    LET v  == verifyChecksum(data, hidden, s.blockStart, s.blockHeader.Length, p)
        s1 == [s EXCEPT !.pos = v.pos, !.verifyLog = Append(@, v.entry)]
    IN  IF v.fault # "none" THEN [s1 EXCEPT !.pc = "done", !.fault = v.fault]
        ELSE IF v.err # "nil" THEN Fail(s1, v.err)
        ELSE s1

\* case "fmt ":
FmtStep(data, hidden, s) ==
    LET rd == BinaryRead(data, s.pos, FmtBlockSize) IN
    IF rd.err # "nil"
    THEN Fail([s EXCEPT !.pos = rd.pos, !.fmtBlock = Some(DecodeFmt(Zeros(8)))],
              "Error reading buffer")
    ELSE AfterVerify(data, hidden,
                     [s EXCEPT !.fmtBlock = Some(DecodeFmt(rd.bytes))], rd.pos)

\* case "info":
InfoStep(data, hidden, s) ==
    LET rd == BinaryRead(data, s.pos, InfoBlockSize) IN
    IF rd.err # "nil"
    THEN Fail([s EXCEPT !.pos = rd.pos, !.infoBlock = Some(Zeros(InfoBlockSize))],
              "Error reading buffer")
    ELSE AfterVerify(data, hidden, [s EXCEPT !.infoBlock = Some(rd.bytes)], rd.pos)

\* A faulty variant: a repeated tag appends to the samples already held.
StoreSamplesAppend(old, new) ==
    IF old = Nil THEN Some(new) ELSE Some(old[1] \o new)

\* leadXSamples = make([]int16, ...); binary.Read(..., &leadXSamples): the
\* variable holds the new slice, whatever it held before.
StoreSamples(old, new) == Some(new)

\* case "ecg ", "ecg2" .. "ecg6":
SampleStep(data, hidden, s) ==
    LET n    == ToInt(s.blockHeader.Length) \div 2
        lead == LeadOf(s.blockHeader.BlockId)
        rd   == BinaryRead(data, s.pos, 2 * n)
    IN  IF rd.err # "nil"
        THEN Fail([s EXCEPT !.pos = rd.pos,
                            !.leads[lead] = StoreSamples(@, Zeros(n))],
                  "Error reading buffer")
        ELSE AfterVerify(data, hidden,
                 [s EXCEPT !.leads[lead] = StoreSamples(@, DecodeSamples(rd.bytes))],
                 rd.pos)

\* default: discard Length + ChecksumLength bytes (a uint32 sum) with one Read.
SkipStep(data, s) ==
    LET n  == ToInt(AddU32(s.blockHeader.Length, ChecksumLength))
        rd == ReaderRead(data, s.pos, n)
    IN  IF rd.err # "nil" THEN Fail(s, "Error reading input")
        ELSE [s EXCEPT !.pos = rd.pos]

\* Lines 86-201: one turn of the block loop.
LoopStep(data, hidden, s) ==
    LET rd == BinaryRead(data, s.pos, BlockHeaderSize)
        s0 == [s EXCEPT !.blockStart = s.pos, !.pos = rd.pos,
                        !.headerReads = @ + 1]
    IN  IF rd.err = "EOF" THEN [s0 EXCEPT !.pc = "finish"]
        ELSE IF rd.err # "nil" THEN Fail(s0, "Error reading file")
        ELSE LET h  == DecodeBlockHeader(rd.bytes)
                 s1 == [s0 EXCEPT !.blockHeader = h,
                           !.blockLog = Append(@, [start |-> s.pos, id |-> h.BlockId,
                                                   length |-> h.Length])]
             IN  CASE h.BlockId = TagFmt -> FmtStep(data, hidden, s1)
                   [] h.BlockId = TagInfo -> InfoStep(data, hidden, s1)
                   [] h.BlockId \in SampleTags -> SampleStep(data, hidden, s1)
                   [] OTHER -> SkipStep(data, s1)

\* Lines 204-242: build the result.  fmtBlock is dereferenced unchecked.
\* Gain, 1e6 / float32(Resolution), is kept as the pair <<1000000, Resolution>>.
FinishStep(s) ==
    IF s.fmtBlock = Nil
    THEN [s EXCEPT !.pc = "done", !.fault = "nil pointer dereference"]
    ELSE LET f == s.fmtBlock[1] IN
         [s EXCEPT !.pc = "done",
                   !.result = Some([Gain |-> <<1000000, f.Resolution>>,
                                    Frequency |-> f.Frequency,
                                    MainsFrequency |->
                                        IF (f.Flags \div 2) % 2 = 1 THEN 60 ELSE 50,
                                    Samples |-> s.leads,
                                    Info |-> s.infoBlock])]

ParseStep(data, hidden, s) ==
    CASE s.pc = "start"  -> HeaderStep(data, s)
      [] s.pc = "loop"   -> LoopStep(data, hidden, s)
      [] s.pc = "finish" -> FinishStep(s)
      [] OTHER           -> s

\* Parse(atcData), run to its end.
RECURSIVE RunFrom(_, _, _)
RunFrom(data, hidden, s) ==
    IF s.pc = "done" THEN s ELSE RunFrom(data, hidden, ParseStep(data, hidden, s))

Parse(data, hidden) == RunFrom(data, hidden, Start)

-----------------------------------------------------------------------------
(* The input buffers: a file header followed by blocks, written out byte   *)
(* by byte the way the decoders above read them back.                      *)

MaxBlocks == 3        \* blocks in a mixed file
MaxLeadBlocks == 2    \* sample blocks after the format block in a lead file
MaxSamples == 2       \* samples in a round-trip file's "ecg " block
MaxTamper == 4        \* payload bytes tampered with at each end of a block
MaxLen == 4           \* bytes summed by the checksum test

Uint32Bytes(n) ==
    <<n % 256, (n \div 256) % 256, (n \div 65536) % 256, (n \div 16777216) % 256>>

Uint16Bytes(n) == <<n % 256, (n \div 256) % 256>>

Int16Bytes(v) == Uint16Bytes(IF v < 0 THEN v + 65536 ELSE v)

RECURSIVE SampleBytes(_)
SampleBytes(samples) ==
    IF samples = <<>> THEN <<>>
    ELSE Int16Bytes(Head(samples)) \o SampleBytes(Tail(samples))

\* fields = <<Format, Frequency, Resolution, Flags, Reserved>>
FmtBytes(fields) ==
    <<fields[1]>> \o Uint16Bytes(fields[2]) \o Uint16Bytes(fields[3])
        \o <<fields[4]>> \o Uint16Bytes(fields[5])

\* The checksum a well-formed file stores after a block: the sum of the
\* block's header and payload bytes, as a 32-bit value.
RECURSIVE Total(_, _, _)
Total(bytes, lo, hi) ==
    IF lo > hi THEN 0
    ELSE IF lo = hi THEN bytes[lo]
    ELSE Total(bytes, lo, (lo + hi) \div 2) + Total(bytes, ((lo + hi) \div 2) + 1, hi)

StoredChecksum(bytes) == Uint32Bytes(Total(bytes, 1, Len(bytes)))

\* A block as it lies in the file: tag, declared length, the payload bytes
\* present and the trailer bytes present.  samples and fields say what a
\* well-formed block encodes; good says the block is well formed.
Block(tag, declared, body, trailer, samples, fields, good) ==
    [tag |-> tag, length |-> Uint32Bytes(declared), body |-> body,
     trailer |-> trailer, samples |-> samples, fields |-> fields, good |-> good]

BlockBytes(b) == b.tag \o b.length \o b.body \o b.trailer

\* The checksum of the span the declared length names, within the payload.
SpanChecksum(tag, declared, body) ==
    StoredChecksum(tag \o Uint32Bytes(declared)
                       \o SubSeq(body, 1, IF declared < Len(body) THEN declared
                                          ELSE Len(body)))

FmtBlockOf(fields) ==
    Block(TagFmt, FmtBlockSize, FmtBytes(fields),
          SpanChecksum(TagFmt, FmtBlockSize, FmtBytes(fields)), <<>>, fields, TRUE)

LeadBlockOf(tag, samples) ==
    Block(tag, 2 * Len(samples), SampleBytes(samples),
          SpanChecksum(tag, 2 * Len(samples), SampleBytes(samples)),
          samples, <<>>, TRUE)

InfoBytes == [i \in 1..InfoBlockSize |-> (7 * i) % 256]

InfoBlockOf ==
    Block(TagInfo, InfoBlockSize, InfoBytes,
          SpanChecksum(TagInfo, InfoBlockSize, InfoBytes), <<>>, <<>>, TRUE)

TagXtra == <<120, 116, 114, 97>>    \* "xtra", not a known tag

FmtA == FmtBlockOf(<<1, 300, 500, 0, 0>>)
FmtB == FmtBlockOf(<<1, 400, 200, 2, 0>>)

GoodBlocks ==
    { FmtA, FmtB, InfoBlockOf,
      LeadBlockOf(TagEcg, <<1000, -1>>), LeadBlockOf(TagEcg, <<-32768>>),
      LeadBlockOf(TagEcg2, <<255>>),
      Block(TagXtra, 3, <<9, 8, 7>>, <<0, 0, 0, 0>>, <<>>, <<>>, TRUE) }

BadBlocks ==
    { \* a format block whose stored checksum is off by one
      Block(TagFmt, 8, FmtA.body, <<FmtA.trailer[1] + 1>> \o Tail(FmtA.trailer),
            <<>>, <<>>, FALSE),
      \* a format block declaring 4 bytes, its checksum that of the 4
      Block(TagFmt, 4, FmtB.body, SpanChecksum(TagFmt, 4, FmtB.body),
            <<>>, <<>>, FALSE),
      \* a format block declaring 100 bytes
      Block(TagFmt, 100, FmtA.body, FmtA.trailer, <<>>, <<>>, FALSE),
      \* a format block cut after 3 payload bytes
      Block(TagFmt, 8, <<1, 44, 1>>, <<>>, <<>>, <<>>, FALSE),
      \* an "ecg2" block declaring 3 bytes
      Block(TagEcg2, 3, <<156, 0>>, <<0, 2, 0, 0>>, <<>>, <<>>, FALSE),
      \* an "ecg " block declaring 1 byte, with nothing after its header
      Block(TagEcg, 1, <<>>, <<>>, <<>>, <<>>, FALSE),
      \* an "ecg " block declaring 6 bytes, 2 of them present
      Block(TagEcg, 6, <<5, 0>>, <<>>, <<>>, <<>>, FALSE),
      \* an unknown block declaring 10 bytes, 3 of them present
      Block(TagXtra, 10, <<9, 8, 7>>, <<>>, <<>>, <<>>, FALSE),
      \* an unknown block declaring 4 bytes, with nothing after its header
      Block(TagXtra, 4, <<>>, <<>>, <<>>, <<>>, FALSE),
      \* an unknown block declaring 2^32 - 4 bytes
      [Block(TagXtra, 0, <<>>, <<>>, <<>>, <<>>, FALSE)
          EXCEPT !.length = <<252, 255, 255, 255>>],
      \* three bytes of a block header
      Block(<<101, 99, 103>>, 0, <<>>, <<>>, <<>>, <<>>, FALSE) }

\* The last entry is not a block at all: its bytes are the three tag bytes.
RawBytes(b) == IF Len(b.tag) = 4 THEN BlockBytes(b) ELSE b.tag

RECURSIVE Concat(_)
Concat(blocks) ==
    IF blocks = <<>> THEN <<>> ELSE RawBytes(Head(blocks)) \o Concat(Tail(blocks))

GoodHeader == AtcFileSignature \o <<1, 0, 0, 0>>

BadHeaders ==
    { <<>>, SubSeq(GoodHeader, 1, 3), SubSeq(GoodHeader, 1, 8),
      SubSeq(GoodHeader, 1, 11),
      <<65, 76, 73, 86, 69, 0, 0, 1, 1, 0, 0, 0>>,
      <<97, 76, 73, 86, 69, 0, 0, 0, 1, 0, 0, 0>> }

SeqsUpTo(S, n) == UNION { [1..k -> S] : k \in 0..n }

InsertAt(q, i, b) == SubSeq(q, 1, i) \o <<b>> \o SubSeq(q, i + 1, Len(q))

\* Up to MaxBlocks well-formed blocks, or one malformed block anywhere among
\* up to MaxBlocks - 2 well-formed ones.
MixedBlockSeqs ==
    SeqsUpTo(GoodBlocks, MaxBlocks)
    \cup UNION { UNION { { InsertAt(q, i, b) : b \in BadBlocks } : i \in 0..Len(q) }
                 : q \in SeqsUpTo(GoodBlocks, MaxBlocks - 2) }

LeadChoices ==
    { LeadBlockOf(t, <<t[4], -300>>) : t \in SampleTags }

LeadBlockSeqs == { <<FmtA>> \o q : q \in SeqsUpTo(LeadChoices, MaxLeadBlocks) }

SampleValues == {-32768, -1, 0, 255, 32767}

RoundTripBlockSeqs ==
    UNION { { <<FmtB, LeadBlockOf(TagEcg, s)>>, <<LeadBlockOf(TagEcg, s), FmtB>> }
            : s \in SeqsUpTo(SampleValues, MaxSamples) }

Layouts ==
    { [header |-> GoodHeader, blocks |-> q]
        : q \in MixedBlockSeqs \cup LeadBlockSeqs \cup RoundTripBlockSeqs }
    \cup { [header |-> h, blocks |-> q]
             : h \in BadHeaders,
               q \in {<<>>, <<FmtA, LeadBlockOf(TagEcg, <<1000, -1>>)>>} }

FileBytes(l) == l.header \o Concat(l.blocks)

\* cap(atcData) - len(atcData) hidden bytes.  Only a malformed block makes
\* Parse slice past len(atcData), so a well-formed file gets none.
SpareChoices == { <<>>, <<0, 0, 0, 0>> }

-----------------------------------------------------------------------------
(* The state machine of Parse.                                             *)

Cur == [pc |-> pc, pos |-> pos, blockStart |-> blockStart,
        blockHeader |-> blockHeader, leads |-> leads, fmtBlock |-> fmtBlock,
        infoBlock |-> infoBlock, result |-> result, err |-> err, fault |-> fault,
        blockLog |-> blockLog, verifyLog |-> verifyLog, headerReads |-> headerReads]

Apply(s) ==
    /\ pc' = s.pc
    /\ pos' = s.pos
    /\ blockStart' = s.blockStart
    /\ blockHeader' = s.blockHeader
    /\ leads' = s.leads
    /\ fmtBlock' = s.fmtBlock
    /\ infoBlock' = s.infoBlock
    /\ result' = s.result
    /\ err' = s.err
    /\ fault' = s.fault
    /\ blockLog' = s.blockLog
    /\ verifyLog' = s.verifyLog
    /\ headerReads' = s.headerReads
    /\ UNCHANGED <<atcData, spare, layout>>
    /\ UNCHANGED csVars

CsIdle ==
    /\ csData = <<>>
    /\ csPerm = <<>>
    /\ csSum = U32(0, 0)
    /\ csPermSum = U32(0, 0)
    /\ csPc = "idle"

Init ==
    /\ layout \in Layouts
    /\ atcData = FileBytes(layout)
    /\ spare \in (IF \A i \in DOMAIN layout.blocks : layout.blocks[i].good
                  THEN {<<>>} ELSE SpareChoices)
    /\ pc = "start"
    /\ pos = 0
    /\ blockStart = 0
    /\ blockHeader = NoHeader
    /\ leads = NoLeads
    /\ fmtBlock = Nil
    /\ infoBlock = Nil
    /\ result = Nil
    /\ err = "nil"
    /\ fault = "none"
    /\ blockLog = <<>>
    /\ verifyLog = <<>>
    /\ headerReads = 0
    /\ CsIdle

\* The block header at the cursor, as the loop's binary.Read sees it.
NextHeader == BinaryRead(atcData, pos, BlockHeaderSize)
NextTag == SubSeq(NextHeader.bytes, 1, 4)

ReadFileHeader ==
    /\ pc = "start"
    /\ Apply(HeaderStep(atcData, Cur))

EndOfInput ==
    /\ pc = "loop"
    /\ NextHeader.err = "EOF"
    /\ Apply(LoopStep(atcData, spare, Cur))

ShortBlockHeader ==
    /\ pc = "loop"
    /\ NextHeader.err = "unexpected EOF"
    /\ Apply(LoopStep(atcData, spare, Cur))

FmtBlockCase ==
    /\ pc = "loop"
    /\ NextHeader.err = "nil"
    /\ NextTag = TagFmt
    /\ Apply(LoopStep(atcData, spare, Cur))

InfoBlockCase ==
    /\ pc = "loop"
    /\ NextHeader.err = "nil"
    /\ NextTag = TagInfo
    /\ Apply(LoopStep(atcData, spare, Cur))

SampleBlockCase ==
    /\ pc = "loop"
    /\ NextHeader.err = "nil"
    /\ NextTag \in SampleTags
    /\ Apply(LoopStep(atcData, spare, Cur))

UnknownBlockCase ==
    /\ pc = "loop"
    /\ NextHeader.err = "nil"
    /\ NextTag \notin KnownTags
    /\ Apply(LoopStep(atcData, spare, Cur))

BuildResult ==
    /\ pc = "finish"
    /\ Apply(FinishStep(Cur))

Next ==
    \/ ReadFileHeader
    \/ EndOfInput
    \/ ShortBlockHeader
    \/ FmtBlockCase
    \/ InfoBlockCase
    \/ SampleBlockCase
    \/ UnknownBlockCase
    \/ BuildResult

Spec == Init /\ [][Next]_vars

-----------------------------------------------------------------------------
(* The checksum on its own (TestCalcChecksum): calcChecksum applied to a   *)
(* byte sequence and to a reordering of it.                                *)

ChecksumBytes == {2, 3, 65, 122, 193}

RECURSIVE Perms(_)
Perms(q) ==
    IF q = <<>> THEN {<<>>}
    ELSE UNION { { <<q[i]>> \o r
                   : r \in Perms(SubSeq(q, 1, i - 1) \o SubSeq(q, i + 1, Len(q))) }
                 : i \in 1..Len(q) }

ParseIdle ==
    /\ layout = [header |-> <<>>, blocks |-> <<>>]
    /\ atcData = <<>>
    /\ spare = <<>>
    /\ pc = "idle"
    /\ pos = 0
    /\ blockStart = 0
    /\ blockHeader = NoHeader
    /\ leads = NoLeads
    /\ fmtBlock = Nil
    /\ infoBlock = Nil
    /\ result = Nil
    /\ err = "nil"
    /\ fault = "none"
    /\ blockLog = <<>>
    /\ verifyLog = <<>>
    /\ headerReads = 0

InitChecksum ==
    /\ ParseIdle
    /\ csData \in SeqsUpTo(ChecksumBytes, MaxLen)
    /\ csPerm \in Perms(csData)
    /\ csSum = U32(0, 0)
    /\ csPermSum = U32(0, 0)
    /\ csPc = "ready"

CalcChecksums ==
    /\ csPc = "ready"
    /\ csSum' = calcChecksum(csData)
    /\ csPermSum' = calcChecksum(csPerm)
    /\ csPc' = "done"
    /\ UNCHANGED <<csData, csPerm>>
    /\ UNCHANGED parseVars

NextChecksum == CalcChecksums

SpecChecksum == InitChecksum /\ [][NextChecksum]_vars

-----------------------------------------------------------------------------
(* The claims.                                                             *)

\* The errors of Parse by kind: every error but the checksum mismatch is a
\* format error.
IsFormatError(e) ==
    e \in {"Wrong file signature", "Error reading file", "Error reading buffer",
           "Error reading input"}
IsChecksumError(e) == e = "Checksum does not match"

\* C1: when the block loop ends at the end of the input and no "fmt " block
\* was decoded, Parse returns a format error: no Document and no fault.
C1_MissingFmtIsFormatError ==
    [][(pc = "finish" /\ fmtBlock = Nil)
          => (pc' = "done" /\ IsFormatError(err') /\ result' = Nil
              /\ fault' = "none")]_vars

\* The unsigned and the signed sum of a byte sequence, as uint32.
UnsignedSum(data) == Int32ToU32(Total(data, 1, Len(data)))
SignedSum(data) ==
    Int32ToU32(Total([i \in 1..Len(data) |->
                        IF data[i] >= 128 THEN data[i] - 256 ELSE data[i]],
                     1, Len(data)))

\* C2 as stated: calcChecksum is the sum modulo 2^32 of the bytes taken as
\* signed 8-bit values, and 192 for the bytes 0x41, 0x02, 0x03, 0x7A.
C2_SignedByteSum ==
    csPc = "done" =>
        /\ csSum = SignedSum(csData)
        /\ (csData = <<65, 2, 3, 122>> => csSum = U32(0, 192))

\* C2 amended: calcChecksum is the sum modulo 2^32 of the bytes taken as
\* unsigned values (a byte >= 0x80 adds its value, 128..255), and 192 for the
\* bytes 0x41, 0x02, 0x03, 0x7A.
C2_UnsignedByteSum ==
    csPc = "done" =>
        /\ csSum = UnsignedSum(csData)
        /\ (csData = <<65, 2, 3, 122>> => csSum = U32(0, 192))

C2_Witness ==
    /\ csPc = "done"
    /\ Len(csData) = 4
    /\ \E i \in DOMAIN csData : csData[i] >= 128

\* C3 as stated: a reordering of a byte sequence into a different sequence
\* has a different checksum.
C3_OrderSensitive ==
    (csPc = "done" /\ csPerm # csData) => csPermSum # csSum

\* C3 amended: every reordering of a byte sequence has the same checksum;
\* every reordering of 0x41, 0x02, 0x03, 0x7A has checksum 192.
C3_OrderInsensitive ==
    csPc = "done" =>
        /\ csPermSum = csSum
        /\ (csData = <<65, 2, 3, 122>> => csPermSum = U32(0, 192))

C3_Witness ==
    /\ csPc = "done"
    /\ csData = <<65, 2, 3, 122>>
    /\ csPerm = <<122, 3, 2, 65>>

BadStart ==
    \/ Len(atcData) < FileHeaderSize
    \/ SubSeq(atcData, 1, 8) # AtcFileSignature

\* C5: a buffer shorter than the 12-byte header, or whose first 8 bytes are
\* not the signature, is rejected with a format error, and no block header is
\* ever read from it.
C5_BadStartRejected ==
    BadStart =>
        /\ pc \in {"start", "done"}
        /\ headerReads = 0
        /\ blockLog = <<>>
        /\ pc = "done" => (IsFormatError(err) /\ result = Nil /\ fault = "none")

C5_Witness ==
    /\ pc = "done"
    /\ Len(atcData) >= 8
    /\ Len(atcData) < FileHeaderSize
    /\ SubSeq(atcData, 1, 8) = AtcFileSignature
    /\ err = "Wrong file signature"

\* What the input holds after a decoded block header.
Remaining(b) == Len(atcData) - (b.start + BlockHeaderSize)
IsOdd(u) == u.lo % 2 = 1
Rejected == IsFormatError(err) /\ result = Nil /\ fault = "none"

TamperOffsets(v) ==
    LET first == v.start + BlockHeaderSize
        ends  == {v.spanEnd, v.cursor, Len(atcData)}
        last  == (CHOOSE e \in ends : \A f \in ends : e <= f) - 1
    IN  { k \in first..last : k - first < MaxTamper \/ last - k < MaxTamper }

TamperValues(b) == { (b + 1) % 256, (b + 128) % 256 }

Tampered(k, b) == [atcData EXCEPT ![k + 1] = b]

TamperCaught(v, k, b) ==
    LET run == Parse(Tampered(k, b), spare) IN
    /\ calcChecksum(SubSeq(Tampered(k, b) \o spare, v.start + 1, v.spanEnd))
           # v.stored
    /\ IsChecksumError(run.err)
    /\ run.result = Nil
    /\ run.fault = "none"

\* C4: in a file Parse accepts, changing one payload byte of a known block
\* (a byte of the span the block's declared length names, outside the stored
\* checksum) and keeping the stored checksum makes the block's checksum
\* differ from the stored one, and Parse ends with a checksum error and no
\* Document.
C4_TamperedPayloadCaught ==
    (pc = "done" /\ result # Nil) =>
        \A i \in DOMAIN verifyLog :
            \A k \in TamperOffsets(verifyLog[i]) :
                \A b \in TamperValues(atcData[k + 1]) :
                    TamperCaught(verifyLog[i], k, b)

C4_Witness ==
    /\ pc = "done"
    /\ result # Nil
    /\ Len(verifyLog) = 3
    /\ infoBlock # Nil
    /\ \A i \in DOMAIN verifyLog : TamperOffsets(verifyLog[i]) # {}

\* C6: a sample block whose declared length is odd, or exceeds the bytes
\* left after its header, makes Parse fail with a format error.
C6_OddOrOverlongSamplesRejected ==
    (/\ pc = "done"
     /\ \E i \in DOMAIN blockLog :
            /\ blockLog[i].id \in SampleTags
            /\ \/ IsOdd(blockLog[i].length)
               \/ ToInt(blockLog[i].length) > Remaining(blockLog[i]))
    => Rejected

\* C7: an unknown block is skipped by exactly its declared length plus 4
\* bytes, so that the next block header is read right after them; when fewer
\* bytes than that are left, Parse fails with a format error.
C7_UnknownBlockSkippedOrRejected ==
    \A i \in DOMAIN blockLog :
        blockLog[i].id \notin KnownTags =>
            LET want == ToInt(blockLog[i].length) + ChecksumLength IN
            /\ (Remaining(blockLog[i]) >= want /\ i < Len(blockLog))
                   => blockLog[i + 1].start
                          = blockLog[i].start + BlockHeaderSize + want
            /\ (Remaining(blockLog[i]) < want /\ (i < Len(blockLog) \/ pc = "done"))
                   => (i = Len(blockLog) /\ Rejected)

Occurrences(tag) == { i \in DOMAIN layout.blocks : layout.blocks[i].tag = tag }
LastBlock(tag) ==
    layout.blocks[CHOOSE i \in Occurrences(tag) : \A j \in Occurrences(tag) : j <= i]

WellFormed ==
    /\ layout.header = GoodHeader
    /\ \A i \in DOMAIN layout.blocks : layout.blocks[i].good
    /\ Occurrences(TagFmt) # {}

HasRepeatedTag == \E tag \in KnownTags : Cardinality(Occurrences(tag)) >= 2

LastWins(doc) ==
    /\ doc.Frequency = LastBlock(TagFmt).fields[2]
    /\ doc.Gain = <<1000000, LastBlock(TagFmt).fields[3]>>
    /\ doc.MainsFrequency = (IF LastBlock(TagFmt).fields[4] = 2 THEN 60 ELSE 50)
    /\ \A tag \in SampleTags :
           doc.Samples[LeadOf(tag)] =
               IF Occurrences(tag) = {} THEN Nil ELSE Some(LastBlock(tag).samples)
    /\ doc.Info = IF Occurrences(TagInfo) = {} THEN Nil ELSE Some(InfoBytes)

\* C8: in a well-formed file with a format block in which a known tag
\* occurs more than once, Parse returns a Document, and the Document holds,
\* for every known tag, what the last block with that tag encodes.
C8_LastOccurrenceWins ==
    (pc = "done" /\ WellFormed /\ HasRepeatedTag) =>
        /\ err = "nil"
        /\ fault = "none"
        /\ result # Nil
        /\ LastWins(result[1])

C8_Witness ==
    /\ pc = "done"
    /\ WellFormed
    /\ result # Nil
    /\ \E i, j \in Occurrences(TagEcg) :
           i < j /\ Len(layout.blocks[i].samples) > Len(layout.blocks[j].samples)

IsRoundTrip ==
    /\ layout.header = GoodHeader
    /\ Len(layout.blocks) = 2
    /\ \A i \in 1..2 : layout.blocks[i].good
    /\ { layout.blocks[1].tag, layout.blocks[2].tag } = { TagFmt, TagEcg }

\* C9: a file of the header, one "fmt " block and one "ecg " block of N
\* samples, in either order, each with its checksum, decodes to a Document
\* whose leadI is those N samples in order and whose other leads are absent.
C9_RoundTrip ==
    (pc = "done" /\ IsRoundTrip) =>
        /\ err = "nil"
        /\ fault = "none"
        /\ result # Nil
        /\ result[1].Samples["leadI"] = Some(LastBlock(TagEcg).samples)
        /\ Len(result[1].Samples["leadI"][1]) = Len(LastBlock(TagEcg).samples)
        /\ \A l \in LeadNames \ {"leadI"} : result[1].Samples[l] = Nil

C9_Witness ==
    /\ pc = "done"
    /\ IsRoundTrip
    /\ result # Nil
    /\ layout.blocks[1].tag = TagEcg
    /\ Len(layout.blocks[1].samples) = MaxSamples
    /\ layout.blocks[1].samples[1] = -32768

DecodedSize(b) ==
    CASE b.id = TagFmt  -> FmtBlockSize
      [] b.id = TagInfo -> InfoBlockSize
      [] OTHER          -> 2 * (ToInt(b.length) \div 2)

\* C10: every call of verifyChecksum sums a span that lies inside the input
\* buffer and reads the stored checksum right after that span; a known block
\* whose declared length is not the number of bytes decoded, or runs past
\* the end of the input, ends Parse with an error: no fault, no Document.
C10_VerifySpanInsideBuffer ==
    /\ \A i \in DOMAIN verifyLog :
           /\ verifyLog[i].spanEnd <= Len(atcData)
           /\ verifyLog[i].cursor = verifyLog[i].spanEnd
    /\ (/\ pc = "done"
        /\ \E i \in DOMAIN blockLog :
               /\ blockLog[i].id \in KnownTags
               /\ \/ ToInt(blockLog[i].length) # DecodedSize(blockLog[i])
                  \/ ToInt(blockLog[i].length) > Remaining(blockLog[i]))
       => (err # "nil" /\ result = Nil /\ fault = "none")

====
